---------------------------- MODULE Spec2Model ----------------------------
(***************************************************************************)
(* Model of PurePythonProcessor (log_processor/pure_python.py): the five   *)
(* static operations parse_logs, validate_logs, compute_stats, filter_logs *)
(* and batch_process over a batch of raw JSON text lines.                  *)
(*                                                                         *)
(* A raw line is modelled by its JSON syntax (malformed text, a bare       *)
(* number, or an object with the four interpreted members); json.loads is  *)
(* the conversion from that syntax to Python values, with Python's typing  *)
(* rules (bool is an int, None, missing keys).  Numbers are integers; the  *)
(* float/int distinction of a literal is kept as a type tag.               *)
(***************************************************************************)
EXTENDS Integers, Sequences, FiniteSets, TLC

VARIABLES
    lines,      \* the caller's batch: a sequence of raw lines
    called,     \* name of the last operation invoked, "none" before any call
    ret,        \* outcome of the last call: a return value or a raised exception
    args,       \* the keyword arguments the caller passes to filter_logs
    calls,      \* concurrent callers: each one's batch, operation and outcome
    frames,     \* the local variables of the method invocations in progress
    pipeline    \* a LogPipeline and its analyze_and_alert run

vars == <<lines, called, ret, args, calls, frames, pipeline>>

\* Longest batch the model explores.
MaxLines == 3

-----------------------------------------------------------------------------
(* JSON text: tokens of the four members the code interprets. *)

Keys == {"timestamp", "level", "duration_ms", "status_code"}

JAbsent == [j |-> "absent", n |-> 0, s |-> ""]
JNull == [j |-> "null", n |-> 0, s |-> ""]
JTrue == [j |-> "true", n |-> 0, s |-> ""]
JInt(k) == [j |-> "int", n |-> k, s |-> ""]
JReal(k) == [j |-> "real", n |-> k, s |-> ""]
JStr(str) == [j |-> "string", n |-> 0, s |-> str]
\* The empty array [], a value that is not a scalar.
JEmptyArray == [j |-> "array", n |-> 0, s |-> ""]

\* Text that is not JSON at all, e.g. {bad
MalformedLine ==
    [form |-> "malformed", n |-> 0,
     members |-> [k \in Keys |-> JAbsent]]

\* Well-formed JSON that is not an object, e.g. 42
NumberLine(k) ==
    [form |-> "number", n |-> k,
     members |-> [k2 \in Keys |-> JAbsent]]

\* A JSON object with the given member tokens (JAbsent: no such member).
ObjectLine(ts, lv, du, st) ==
    [form |-> "object", n |-> 0,
     members |-> [k \in Keys |->
        CASE k = "timestamp" -> ts
          [] k = "level" -> lv
          [] k = "duration_ms" -> du
          [] k = "status_code" -> st]]

-----------------------------------------------------------------------------
(* Python values produced by json.loads. *)

PyMissing == [t |-> "missing", n |-> 0, s |-> ""]
PyNone == [t |-> "NoneType", n |-> 0, s |-> ""]
PyBool(b) == [t |-> "bool", n |-> IF b THEN 1 ELSE 0, s |-> ""]
PyInt(k) == [t |-> "int", n |-> k, s |-> ""]
PyFloat(k) == [t |-> "float", n |-> k, s |-> ""]
PyStr(str) == [t |-> "str", n |-> 0, s |-> str]
PyEmptyList == [t |-> "list", n |-> 0, s |-> ""]

\* json.loads on one member token.
DecodeToken(tok) ==
    CASE tok.j = "absent" -> PyMissing
      [] tok.j = "null" -> PyNone
      [] tok.j = "true" -> PyBool(TRUE)
      [] tok.j = "int" -> PyInt(tok.n)
      [] tok.j = "real" -> PyFloat(tok.n)
      [] tok.j = "string" -> PyStr(tok.s)
      [] tok.j = "array" -> PyEmptyList

NoEntry == [type |-> "none", n |-> 0, items |-> [k \in Keys |-> PyMissing]]

\* json.loads(line): ok = FALSE stands for json.JSONDecodeError.
JsonLoads(line) ==
    CASE line.form = "malformed" -> [ok |-> FALSE, val |-> NoEntry]
      [] line.form = "number" ->
            [ok |-> TRUE,
             val |-> [type |-> "int", n |-> line.n,
                      items |-> [k \in Keys |-> PyMissing]]]
      [] line.form = "object" ->
            [ok |-> TRUE,
             val |-> [type |-> "dict", n |-> 0,
                      items |-> [k \in Keys |-> DecodeToken(line.members[k])]]]

\* entry.get(key): None when the key is missing.  Only dicts have get.
HasGet(entry) == entry.type = "dict"
Get(entry, key) ==
    IF entry.items[key] = PyMissing THEN PyNone ELSE entry.items[key]
\* entry.get(key, default)
GetDefault(entry, key, default) ==
    IF entry.items[key] = PyMissing THEN default ELSE entry.items[key]
\* key in entry
HasKey(entry, key) == entry.items[key] # PyMissing

\* Python truthiness of a value.
Truthy(v) ==
    CASE v.t \in {"missing", "NoneType", "list"} -> FALSE
      [] v.t = "str" -> v.s # ""
      [] v.t \in {"int", "float", "bool"} -> v.n # 0

\* isinstance(v, (int, float)) and isinstance(v, int): bool is a subclass of int.
IsInstanceIntFloat(v) == v.t \in {"int", "float", "bool"}
IsInstanceInt(v) == v.t \in {"int", "bool"}

-----------------------------------------------------------------------------
(* Outcomes of a call. *)

NoResult == [kind |-> "none", exc |-> "", value |-> <<>>]
Return(v) == [kind |-> "return", exc |-> "", value |-> v]
Raise(e) == [kind |-> "raise", exc |-> e, value |-> <<>>]

-----------------------------------------------------------------------------
(* parse_logs *)

\* Variant of the loop that skips a malformed line instead of raising.
RECURSIVE parse_logs_loop_skipping(_, _, _)
parse_logs_loop_skipping(log_lines, i, results) ==
    IF i > Len(log_lines) THEN Return(results)
    ELSE LET r == JsonLoads(log_lines[i]) IN
         parse_logs_loop_skipping(log_lines, i + 1,
                                  IF r.ok THEN Append(results, r.val) ELSE results)

\* Variant of the loop that puts each new record in front of the earlier ones.
RECURSIVE parse_logs_loop_prepending(_, _, _)
parse_logs_loop_prepending(log_lines, i, results) ==
    IF i > Len(log_lines) THEN Return(results)
    ELSE LET r == JsonLoads(log_lines[i]) IN
         IF r.ok THEN parse_logs_loop_prepending(log_lines, i + 1, <<r.val>> \o results)
         ELSE Raise("ValueError: Parse error")

RECURSIVE parse_logs_loop(_, _, _)
parse_logs_loop(log_lines, i, results) ==
    IF i > Len(log_lines) THEN Return(results)
    ELSE LET r == JsonLoads(log_lines[i]) IN
         IF r.ok THEN parse_logs_loop(log_lines, i + 1, Append(results, r.val))
         ELSE Raise("ValueError: Parse error")

parse_logs(log_lines) == parse_logs_loop(log_lines, 1, <<>>)

-----------------------------------------------------------------------------
(* validate_logs *)

valid_levels == { PyStr("ERROR"), PyStr("WARN"), PyStr("INFO"), PyStr("DEBUG") }

\* An error string f"Line {idx}: <reason text> {shown}": the position, which
\* of the five texts it is, and the value interpolated into it.
ErrorMessage(idx, reason, shown) == [line |-> idx, reason |-> reason, shown |-> shown]

\* Lower and upper limit of an acceptable status_code.
StatusMin == 100
StatusMax == 599

\* The checks made on a decoded entry, in source order; each failed check
\* appends one message and continues with the next line.
validate_entry(entry, idx) ==
    IF ~ HasGet(entry) THEN [kind |-> "raise", msg |-> ErrorMessage(idx, "AttributeError", PyNone)]
    ELSE IF ~ Truthy(Get(entry, "timestamp"))
    THEN [kind |-> "reject", msg |-> ErrorMessage(idx, "Missing or empty timestamp", PyNone)]
    ELSE LET level == GetDefault(entry, "level", PyStr(""))
             duration == Get(entry, "duration_ms")
             status == Get(entry, "status_code")
         IN
         IF level \notin valid_levels
         THEN [kind |-> "reject", msg |-> ErrorMessage(idx, "Invalid log level", level)]
         ELSE IF duration # PyNone /\ (~ IsInstanceIntFloat(duration) \/ duration.n < 0)
         THEN [kind |-> "reject", msg |-> ErrorMessage(idx, "Invalid duration_ms", duration)]
         ELSE IF status # PyNone /\
                 (~ IsInstanceInt(status) \/ ~ (StatusMin <= status.n /\ status.n <= StatusMax))
         THEN [kind |-> "reject", msg |-> ErrorMessage(idx, "Invalid status_code", status)]
         ELSE [kind |-> "valid", msg |-> ErrorMessage(idx, "", PyNone)]

\* One iteration of the loop: the try block and its except clause.
validate_line(line, idx) ==
    LET r == JsonLoads(line) IN
    IF r.ok THEN validate_entry(r.val, idx)
    ELSE [kind |-> "reject", msg |-> ErrorMessage(idx, "JSON parse error", PyNone)]

\* Variant numbering the lines from zero, as a bare enumerate() would.
EnumerateStartZero == 1 - 1

\* First value of idx in enumerate(log_lines, 1).
EnumerateStart == 1

RECURSIVE validate_logs_loop(_, _, _, _)
validate_logs_loop(log_lines, i, errors, valid_count) ==
    IF i > Len(log_lines)
    THEN Return([valid_count |-> valid_count, errors |-> errors])
    ELSE LET step == validate_line(log_lines[i], i - 1 + EnumerateStart) IN
         CASE step.kind = "raise" -> Raise("AttributeError")
           [] step.kind = "reject" ->
                validate_logs_loop(log_lines, i + 1, Append(errors, step.msg), valid_count)
           [] step.kind = "valid" ->
                validate_logs_loop(log_lines, i + 1, errors, valid_count + 1)

validate_logs(log_lines) == validate_logs_loop(log_lines, 1, <<>>, 0)

-----------------------------------------------------------------------------
(* compute_stats *)

\* Variant of the parse loop that keeps an empty record for a line that fails.
RECURSIVE parsed_entries_keeping_failures(_, _, _)
parsed_entries_keeping_failures(log_lines, i, entries) ==
    IF i > Len(log_lines) THEN entries
    ELSE LET r == JsonLoads(log_lines[i])
             empty == [type |-> "dict", n |-> 0, items |-> [k \in Keys |-> PyMissing]]
         IN parsed_entries_keeping_failures(log_lines, i + 1,
                Append(entries, IF r.ok THEN r.val ELSE empty))

\* The parse loop: entries of the lines that decode, the others skipped.
RECURSIVE parsed_entries(_, _, _)
parsed_entries(log_lines, i, entries) ==
    IF i > Len(log_lines) THEN entries
    ELSE LET r == JsonLoads(log_lines[i]) IN
         parsed_entries(log_lines, i + 1,
                        IF r.ok THEN Append(entries, r.val) ELSE entries)

\* Variant without the empty-population check.
EmptyPopulationUnchecked(entries) == FALSE

\* if not entries: raise ValueError("No valid log entries found")
EmptyPopulation(entries) == entries = <<>>

\* Variant that reads a missing level as INFO.
LevelCountDefaulting(entries, name) ==
    Cardinality({ i \in 1..Len(entries) :
                    GetDefault(entries[i], "level", PyStr("INFO")) = PyStr(name) })

\* sum(1 for e in entries if e.get('level') == name)
LevelCount(entries, name) ==
    Cardinality({ i \in 1..Len(entries) : Get(entries[i], "level") = PyStr(name) })

\* Variant that collects each distinct duration value once.
RECURSIVE collect_durations_distinct(_, _, _)
collect_durations_distinct(entries, i, durations) ==
    IF i > Len(entries) THEN durations
    ELSE LET e == entries[i] IN
         collect_durations_distinct(entries, i + 1,
            IF /\ HasKey(e, "duration_ms") /\ e.items["duration_ms"] # PyNone
               /\ ~ \E j \in 1..Len(durations) : durations[j] = e.items["duration_ms"]
            THEN Append(durations, e.items["duration_ms"])
            ELSE durations)

\* [e['duration_ms'] for e in entries if 'duration_ms' in e and e[...] is not None]
RECURSIVE collect_durations(_, _, _)
collect_durations(entries, i, durations) ==
    IF i > Len(entries) THEN durations
    ELSE LET e == entries[i] IN
         collect_durations(entries, i + 1,
            IF HasKey(e, "duration_ms") /\ e.items["duration_ms"] # PyNone
            THEN Append(durations, e.items["duration_ms"])
            ELSE durations)

\* Variant that leaves the list in input order.
RECURSIVE SortedListUnsorted(_, _, _)
SortedListUnsorted(xs, i, acc) ==
    IF i > Len(xs) THEN acc ELSE SortedListUnsorted(xs, i + 1, Append(acc, xs[i]))

\* list.sort(): ascending by numeric value, stable for equal values.
RECURSIVE InsertSorted(_, _)
InsertSorted(sorted, v) ==
    IF sorted = <<>> THEN <<v>>
    ELSE IF sorted[Len(sorted)].n <= v.n THEN Append(sorted, v)
    ELSE Append(InsertSorted(SubSeq(sorted, 1, Len(sorted) - 1), v), sorted[Len(sorted)])

RECURSIVE SortedList(_, _, _)
SortedList(xs, i, acc) ==
    IF i > Len(xs) THEN acc ELSE SortedList(xs, i + 1, InsertSorted(acc, xs[i]))

RECURSIVE SumN(_, _)
SumN(xs, i) == IF i > Len(xs) THEN 0 ELSE xs[i].n + SumN(xs, i + 1)

RECURSIVE Gcd(_, _)
Gcd(a, b) == IF b = 0 THEN a ELSE Gcd(b, a % b)
Abs(a) == IF a < 0 THEN 0 - a ELSE a

\* The float num / den, as a fraction in lowest terms.
Quotient(num, den) ==
    LET g == Gcd(Abs(num), den) IN [num |-> num \div g, den |-> den \div g]

\* Variant using the rank ceil(n * q) - 1.
PercentileIndexCeil(n, q) == ((n * q + 99) \div 100) - 1

\* int(len(durations) * q) for q = 0.50, 0.95, 0.99, q given in hundredths.
PercentileIndex(n, q) == (n * q) \div 100

Min2(a, b) == IF a < b THEN a ELSE b

\* durations[min(idx, len(durations) - 1)], zero-based.
Percentile(sorted, q) ==
    sorted[Min2(PercentileIndex(Len(sorted), q), Len(sorted) - 1) + 1]

FloatZero == PyFloat(0)

\* The six duration statistics.
DurationStats(durations) ==
    IF durations # <<>>
    THEN LET sorted == SortedList(durations, 1, <<>>) IN
         [avg |-> Quotient(SumN(sorted, 1), Len(sorted)),
          min |-> sorted[1],
          max |-> sorted[Len(sorted)],
          p50 |-> Percentile(sorted, 50),
          p95 |-> Percentile(sorted, 95),
          p99 |-> Percentile(sorted, 99)]
    ELSE [avg |-> Quotient(0, 1), min |-> FloatZero, max |-> FloatZero,
          p50 |-> FloatZero, p95 |-> FloatZero, p99 |-> FloatZero]

\* Entries whose status_code is present and not None.
WithStatus(entries) ==
    { i \in 1..Len(entries) :
        HasKey(entries[i], "status_code") /\ entries[i].items["status_code"] # PyNone }

\* status_code_distribution: keys compare by numeric value (200 == 200.0, 1 == True).
StatusCodeDistribution(entries) ==
    LET codes == { entries[i].items["status_code"].n : i \in WithStatus(entries) } IN
    [c \in codes |->
        Cardinality({ i \in WithStatus(entries) : entries[i].items["status_code"].n = c })]

\* Variant counting only the server errors.
ErrorCodeMinServer == 400 + 100

\* Smallest code counted as an error (4xx, 5xx).
ErrorCodeMin == 400

\* error_count_by_code: code is not None and code >= 400
ErrorCountByCode(entries) ==
    LET hit == { i \in WithStatus(entries) :
                    entries[i].items["status_code"].n >= ErrorCodeMin }
        codes == { entries[i].items["status_code"].n : i \in hit }
    IN [c \in codes |->
          Cardinality({ i \in hit : entries[i].items["status_code"].n = c })]

\* A value that sort(), sum() or >= cannot handle next to numbers.
NonNumeric(v) == v.t = "str"

\* Everything compute_stats does after its parse loop.
aggregate_entries(entries) ==
    IF EmptyPopulation(entries) THEN Raise("ValueError: No valid log entries found")
    ELSE IF \E i \in 1..Len(entries) : ~ HasGet(entries[i]) THEN Raise("AttributeError")
    ELSE LET durations == collect_durations(entries, 1, <<>>) IN
         IF \E i \in 1..Len(durations) : NonNumeric(durations[i]) THEN Raise("TypeError")
         ELSE IF \E i \in WithStatus(entries) : NonNumeric(entries[i].items["status_code"])
         THEN Raise("TypeError")
         ELSE LET d == DurationStats(durations) IN
              Return([total_count |-> Len(entries),
                      error_count |-> LevelCount(entries, "ERROR"),
                      warn_count |-> LevelCount(entries, "WARN"),
                      info_count |-> LevelCount(entries, "INFO"),
                      avg_duration_ms |-> d.avg,
                      min_duration_ms |-> d.min,
                      max_duration_ms |-> d.max,
                      p50_duration_ms |-> d.p50,
                      p95_duration_ms |-> d.p95,
                      p99_duration_ms |-> d.p99,
                      status_code_distribution |-> StatusCodeDistribution(entries),
                      error_count_by_code |-> ErrorCountByCode(entries)])

compute_stats(log_lines) == aggregate_entries(parsed_entries(log_lines, 1, <<>>))

-----------------------------------------------------------------------------
(* Partial aggregates over slices of a batch, and their merge *)

\* What compute_stats gathers from a slice before the final sort: the counts,
\* the duration list in input order and the two distribution maps.
PartialAggregate(log_lines) ==
    LET entries == parsed_entries(log_lines, 1, <<>>) IN
    [total_count |-> Len(entries),
     error_count |-> LevelCount(entries, "ERROR"),
     warn_count |-> LevelCount(entries, "WARN"),
     info_count |-> LevelCount(entries, "INFO"),
     durations |-> collect_durations(entries, 1, <<>>),
     status_code_distribution |-> StatusCodeDistribution(entries),
     error_count_by_code |-> ErrorCountByCode(entries)]

\* Elementwise sum of two distribution maps.
SumMaps(f, g) ==
    [c \in DOMAIN f \cup DOMAIN g |->
        (IF c \in DOMAIN f THEN f[c] ELSE 0) + (IF c \in DOMAIN g THEN g[c] ELSE 0)]

\* Merge of two partial aggregates: counts summed, duration lists concatenated,
\* distribution maps summed.
MergeAggregates(a, b) ==
    [total_count |-> a.total_count + b.total_count,
     error_count |-> a.error_count + b.error_count,
     warn_count |-> a.warn_count + b.warn_count,
     info_count |-> a.info_count + b.info_count,
     durations |-> a.durations \o b.durations,
     status_code_distribution |->
        SumMaps(a.status_code_distribution, b.status_code_distribution),
     error_count_by_code |-> SumMaps(a.error_count_by_code, b.error_count_by_code)]

\* The final sort and the duration statistics, applied to a merged aggregate.
FinalizeAggregate(p) ==
    IF p.total_count = 0 THEN Raise("ValueError: No valid log entries found")
    ELSE LET d == DurationStats(p.durations) IN
         Return([total_count |-> p.total_count,
                 error_count |-> p.error_count,
                 warn_count |-> p.warn_count,
                 info_count |-> p.info_count,
                 avg_duration_ms |-> d.avg,
                 min_duration_ms |-> d.min,
                 max_duration_ms |-> d.max,
                 p50_duration_ms |-> d.p50,
                 p95_duration_ms |-> d.p95,
                 p99_duration_ms |-> d.p99,
                 status_code_distribution |-> p.status_code_distribution,
                 error_count_by_code |-> p.error_count_by_code])

-----------------------------------------------------------------------------
(* filter_logs *)

\* The keyword arguments min_level, min_duration_ms and status_codes: a Python
\* value each (PyNone when left out); status_codes is a list of ints when given.
FilterArgs(min_level, min_duration_ms, given, codes) ==
    [min_level |-> min_level, min_duration_ms |-> min_duration_ms,
     status_codes |-> [given |-> given, codes |-> codes]]

\* All three left at their default None.
NoArgs == FilterArgs(PyNone, PyNone, FALSE, <<>>)

\* level_to_num.get(v, 0)
level_to_num(v) ==
    IF v.t # "str" THEN 0
    ELSE CASE v.s = "ERROR" -> 3
           [] v.s = "WARN" -> 2
           [] v.s = "INFO" -> 1
           [] OTHER -> 0

\* A list cannot be a dict key: level_to_num.get(v, 0) raises TypeError.
Unhashable(v) == v.t = "list"

\* level_to_num.get(min_level, 0) if min_level else 0
min_level_num(min_level) == IF Truthy(min_level) THEN level_to_num(min_level) ELSE 0

\* if status_codes: an empty list is falsy, like None.
StatusCodesTruthy(sc) == sc.given /\ sc.codes # <<>>

\* status in status_codes: list membership by ==, numbers compare by value.
InCodes(status, codes) ==
    /\ status.t \in {"int", "float", "bool"}
    /\ \E k \in 1..Len(codes) : codes[k] = status.n

\* Variant testing the threshold by truthiness: if min_duration_ms.
filter_entry_truthy_threshold(entry, a) ==
    IF ~ HasGet(entry) THEN "AttributeError"
    ELSE LET duration == Get(entry, "duration_ms")
             status == Get(entry, "status_code")
         IN
         IF Unhashable(GetDefault(entry, "level", PyStr("DEBUG"))) THEN "TypeError"
         ELSE IF level_to_num(GetDefault(entry, "level", PyStr("DEBUG"))) < min_level_num(a.min_level)
         THEN "drop"
         ELSE IF Truthy(a.min_duration_ms) /\ duration # PyNone /\ NonNumeric(duration)
         THEN "TypeError"
         ELSE IF Truthy(a.min_duration_ms) /\
                 (duration = PyNone \/ duration.n < a.min_duration_ms.n)
         THEN "drop"
         ELSE IF StatusCodesTruthy(a.status_codes) /\
                 (status = PyNone \/ ~ InCodes(status, a.status_codes.codes))
         THEN "drop"
         ELSE "keep"

\* The three checks on a decoded entry: "keep", "drop" or the exception raised.
filter_entry(entry, a) ==
    IF ~ HasGet(entry) THEN "AttributeError"
    ELSE LET duration == Get(entry, "duration_ms")
             status == Get(entry, "status_code")
         IN
         IF Unhashable(GetDefault(entry, "level", PyStr("DEBUG"))) THEN "TypeError"
         ELSE IF level_to_num(GetDefault(entry, "level", PyStr("DEBUG"))) < min_level_num(a.min_level)
         THEN "drop"
         ELSE IF a.min_duration_ms # PyNone /\ duration # PyNone /\ NonNumeric(duration)
         THEN "TypeError"
         ELSE IF a.min_duration_ms # PyNone /\
                 (duration = PyNone \/ duration.n < a.min_duration_ms.n)
         THEN "drop"
         ELSE IF StatusCodesTruthy(a.status_codes) /\
                 (status = PyNone \/ ~ InCodes(status, a.status_codes.codes))
         THEN "drop"
         ELSE "keep"

RECURSIVE filter_logs_loop(_, _, _, _)
filter_logs_loop(log_lines, a, i, filtered) ==
    IF i > Len(log_lines) THEN Return(filtered)
    ELSE LET r == JsonLoads(log_lines[i]) IN
         IF ~ r.ok THEN filter_logs_loop(log_lines, a, i + 1, filtered)
         ELSE LET step == filter_entry(r.val, a) IN
              CASE step = "keep" ->
                     filter_logs_loop(log_lines, a, i + 1, Append(filtered, r.val))
                [] step = "drop" -> filter_logs_loop(log_lines, a, i + 1, filtered)
                [] OTHER -> Raise(step)

filter_logs(log_lines, a) == filter_logs_loop(log_lines, a, 1, <<>>)

-----------------------------------------------------------------------------
(* batch_process *)

\* Variant folding both passes into one traversal that aggregates only the
\* lines that passed validation.
batch_process_valid_only(log_lines) ==
    LET v == validate_logs(log_lines) IN
    IF v.kind = "raise" THEN v
    ELSE LET accepted(l) == validate_line(l, 1).kind = "valid"
             stats == compute_stats(SelectSeq(log_lines, accepted))
         IN IF stats.kind = "raise" THEN stats
            ELSE Return([stats |-> stats.value, errors |-> v.value.errors])

batch_process(log_lines) ==
    LET v == validate_logs(log_lines) IN
    IF v.kind = "raise" THEN v
    ELSE LET stats == compute_stats(log_lines) IN
         IF stats.kind = "raise" THEN stats
         ELSE Return([stats |-> stats.value, errors |-> v.value.errors])

-----------------------------------------------------------------------------
(* The batches a caller may submit. *)

\* The lines a batch is drawn from: malformed text, a non-object, well-formed
\* records of each level, and records breaking one or several schema rules.
LineDomain ==
    { MalformedLine,
      NumberLine(42),
      ObjectLine(JStr("t"), JStr("INFO"), JReal(5), JInt(200)),
      ObjectLine(JStr("t"), JStr("ERROR"), JInt(20), JInt(500)),
      ObjectLine(JStr("t"), JStr("WARN"), JAbsent, JAbsent),
      ObjectLine(JStr("t"), JStr("DEBUG"), JNull, JInt(404)),
      ObjectLine(JStr(""), JStr("ERROR"), JAbsent, JAbsent),
      ObjectLine(JAbsent, JStr("BAD"), JInt(-5), JInt(700)),
      ObjectLine(JStr("t"), JStr("BAD"), JAbsent, JAbsent),
      ObjectLine(JStr("t"), JAbsent, JInt(-5), JAbsent),
      ObjectLine(JStr("t"), JStr("INFO"), JInt(-5), JInt(700)),
      ObjectLine(JStr("t"), JStr("INFO"), JStr("abc"), JAbsent),
      ObjectLine(JStr("t"), JStr("INFO"), JTrue, JAbsent),
      ObjectLine(JStr("t"), JStr("INFO"), JInt(5), JStr("abc")),
      ObjectLine(JStr("t"), JStr("INFO"), JAbsent, JInt(700)),
      ObjectLine(JStr("t"), JStr("INFO"), JAbsent, JReal(404)) }

RECURSIVE SeqsUpTo(_, _)
SeqsUpTo(S, n) ==
    IF n = 0 THEN { <<>> }
    ELSE LET shorter == SeqsUpTo(S, n - 1) IN
         shorter \cup { Append(q, x) : q \in shorter, x \in S }

Batches == SeqsUpTo(LineDomain, MaxLines)

\* A single caller has no concurrent calls in progress.
NoCalls == <<>>
NoFrames == <<>>
\* No LogPipeline has been constructed.
NoPipeline == <<>>

Init ==
    /\ lines \in Batches
    /\ called = "none"
    /\ ret = NoResult
    /\ args = NoArgs
    /\ calls = NoCalls
    /\ frames = NoFrames
    /\ pipeline = NoPipeline

CallParseLogs ==
    /\ called' = "parse_logs"
    /\ ret' = parse_logs(lines)
    /\ UNCHANGED <<lines, args, calls, frames, pipeline>>

CallValidateLogs ==
    /\ called' = "validate_logs"
    /\ ret' = validate_logs(lines)
    /\ UNCHANGED <<lines, args, calls, frames, pipeline>>

CallComputeStats ==
    /\ called' = "compute_stats"
    /\ ret' = compute_stats(lines)
    /\ UNCHANGED <<lines, args, calls, frames, pipeline>>

CallBatchProcess ==
    /\ called' = "batch_process"
    /\ ret' = batch_process(lines)
    /\ UNCHANGED <<lines, args, calls, frames, pipeline>>

Next ==
    \/ CallParseLogs
    \/ CallValidateLogs
    \/ CallComputeStats
    \/ CallBatchProcess

Spec == Init /\ [][Next]_vars

\* Longest batch explored together with every combination of filter arguments.
MaxFilterLines == 2

\* The arguments a caller may pass to filter_logs.
MinLevels == { PyNone, PyStr("ERROR"), PyStr("WARN"), PyStr("INFO"), PyStr("DEBUG") }
MinDurations == { PyNone, PyFloat(0), PyFloat(10) }
CodeLists == { <<>>, <<200>>, <<404, 700>> }
ArgChoices ==
    { FilterArgs(ml, md, FALSE, <<>>) : ml \in MinLevels, md \in MinDurations }
    \cup { FilterArgs(ml, md, TRUE, cs) :
              ml \in MinLevels, md \in MinDurations, cs \in CodeLists }

\* The lines of LineDomain and a record whose level is not a scalar.
FilterDomain ==
    LineDomain \cup { ObjectLine(JStr("t"), JEmptyArray, JInt(20), JInt(500)) }

InitFilter ==
    /\ lines \in SeqsUpTo(FilterDomain, MaxFilterLines)
    /\ called = "none"
    /\ ret = NoResult
    /\ args \in ArgChoices
    /\ calls = NoCalls
    /\ frames = NoFrames
    /\ pipeline = NoPipeline

CallFilterLogs ==
    /\ called' = "filter_logs"
    /\ ret' = filter_logs(lines, args)
    /\ UNCHANGED <<lines, args, calls, frames, pipeline>>

NextFilter ==
    \/ CallFilterLogs

SpecFilter == InitFilter /\ [][NextFilter]_vars

\* Largest duration population explored by the percentile specification.
MaxDurations == 25

\* A record carrying duration v, and records that carry none.
DurationLine(v) == ObjectLine(JStr("t"), JStr("INFO"), JInt(v), JInt(200))
NoDurationLine == ObjectLine(JStr("t"), JStr("WARN"), JAbsent, JAbsent)
NullDurationLine == ObjectLine(JStr("t"), JStr("DEBUG"), JNull, JInt(404))

\* Populations of n values: 10, 20, ..., 10n, or each value twice.
Ramp(i) == 10 * i
Pairs(i) == 10 * ((i + 1) \div 2)

\* The n values rotated by r, ascending or descending.
Arranged(n, r, descending, paired) ==
    [i \in 1..n |->
        LET k == ((i - 1 + r) % n) + 1
            pos == IF descending THEN n + 1 - k ELSE k
        IN DurationLine(IF paired THEN Pairs(pos) ELSE Ramp(pos))]

DurationBatches ==
    LET plain == { Arranged(n, r, d, p) : n \in 1..MaxDurations,
                                          r \in 0..(MaxDurations - 1),
                                          d \in BOOLEAN, p \in BOOLEAN }
    IN plain
       \cup { <<NoDurationLine>> \o b : b \in plain }
       \cup { b \o <<NullDurationLine>> : b \in plain }

InitDurations ==
    /\ lines \in DurationBatches
    /\ called = "none"
    /\ ret = NoResult
    /\ args = NoArgs
    /\ calls = NoCalls
    /\ frames = NoFrames
    /\ pipeline = NoPipeline

NextDurations ==
    \/ CallComputeStats

SpecDurations == InitDurations /\ [][NextDurations]_vars

-----------------------------------------------------------------------------
(* Concurrent callers. Every operation is a staticmethod working on the     *)
(* locals of its own invocation; callers interleave one loop iteration at   *)
(* a time.                                                                  *)

\* Longest batch a concurrent caller passes.
ConcLines == 2

Callers == {1, 2}

Ops == {"parse_logs", "validate_logs", "compute_stats", "filter_logs", "batch_process"}

ConcDomain ==
    { MalformedLine,
      NumberLine(42),
      ObjectLine(JStr("t"), JStr("ERROR"), JInt(20), JInt(500)) }

\* The filter arguments the concurrent callers pass.
ConcArgs == FilterArgs(PyStr("WARN"), PyNone, FALSE, <<>>)

\* Variant in which every invocation works on one shared set of locals.
FrameOfShared(c) == 1

\* The locals of caller c's invocation: a frame of its own.
FrameOf(c) == c

\* results = [] / errors = [], valid_count = 0 / entries = [] / filtered = []
NewFrame == [i |-> 1, acc |-> <<>>, valid_count |-> 0]

\* A caller holding batch b that has not called yet.
IdleCall(b) ==
    [op |-> "none", phase |-> "idle", log_lines |-> b, given |-> b,
     errors |-> <<>>, result |-> NoResult]

InitCalls ==
    /\ lines = <<>>
    /\ called = "none"
    /\ ret = NoResult
    /\ args = ConcArgs
    /\ calls \in [Callers -> { IdleCall(b) : b \in SeqsUpTo(ConcDomain, ConcLines) }]
    /\ frames = [f \in Callers |-> NewFrame]
    /\ pipeline = NoPipeline

\* The loop an operation enters first; batch_process validates first.
FirstPhase(op) ==
    CASE op = "parse_logs" -> "parse"
      [] op = "validate_logs" -> "validate"
      [] op = "compute_stats" -> "stats"
      [] op = "filter_logs" -> "filter"
      [] op = "batch_process" -> "validate"

Begin(c, op) ==
    /\ calls[c].phase = "idle"
    /\ calls' = [calls EXCEPT ![c].op = op, ![c].phase = FirstPhase(op)]
    /\ frames' = [frames EXCEPT ![FrameOf(c)] = NewFrame]
    /\ UNCHANGED <<lines, called, ret, args, pipeline>>

\* The call of c ends with the given outcome.
Finished(c, outcome) ==
    /\ calls' = [calls EXCEPT ![c].phase = "done", ![c].result = outcome]
    /\ UNCHANGED frames

\* The loop of c goes on with the locals f.
Continue(c, f) ==
    /\ frames' = [frames EXCEPT ![FrameOf(c)] = f]
    /\ UNCHANGED calls

InLoop(c, phase) ==
    /\ calls[c].phase = phase
    /\ frames[FrameOf(c)].i <= Len(calls[c].log_lines)

LoopDone(c, phase) ==
    /\ calls[c].phase = phase
    /\ frames[FrameOf(c)].i > Len(calls[c].log_lines)

Skip(f) == [f EXCEPT !.i = @ + 1]
Collect(f, x) == [f EXCEPT !.i = @ + 1, !.acc = Append(@, x)]

\* One iteration of the loop of parse_logs.
IterateParse(c) ==
    /\ InLoop(c, "parse")
    /\ LET f == frames[FrameOf(c)]
           r == JsonLoads(calls[c].log_lines[f.i])
       IN IF r.ok THEN Continue(c, Collect(f, r.val))
          ELSE Finished(c, Raise("ValueError: Parse error"))
    /\ UNCHANGED <<lines, called, ret, args, pipeline>>

\* One iteration of the loop of validate_logs.
IterateValidate(c) ==
    /\ InLoop(c, "validate")
    /\ LET f == frames[FrameOf(c)]
           step == validate_line(calls[c].log_lines[f.i], f.i - 1 + EnumerateStart)
       IN CASE step.kind = "raise" -> Finished(c, Raise("AttributeError"))
            [] step.kind = "reject" -> Continue(c, Collect(f, step.msg))
            [] step.kind = "valid" ->
                 Continue(c, [f EXCEPT !.i = @ + 1, !.valid_count = @ + 1])
    /\ UNCHANGED <<lines, called, ret, args, pipeline>>

\* One iteration of the parse loop of compute_stats.
IterateStats(c) ==
    /\ InLoop(c, "stats")
    /\ LET f == frames[FrameOf(c)]
           r == JsonLoads(calls[c].log_lines[f.i])
       IN Continue(c, IF r.ok THEN Collect(f, r.val) ELSE Skip(f))
    /\ UNCHANGED <<lines, called, ret, args, pipeline>>

\* One iteration of the loop of filter_logs.
IterateFilter(c) ==
    /\ InLoop(c, "filter")
    /\ LET f == frames[FrameOf(c)]
           r == JsonLoads(calls[c].log_lines[f.i])
       IN IF ~ r.ok THEN Continue(c, Skip(f))
          ELSE LET step == filter_entry(r.val, args) IN
               CASE step = "keep" -> Continue(c, Collect(f, r.val))
                 [] step = "drop" -> Continue(c, Skip(f))
                 [] OTHER -> Finished(c, Raise(step))
    /\ UNCHANGED <<lines, called, ret, args, pipeline>>

\* parse_logs and filter_logs return the list they built.
ReturnList(c) ==
    /\ LoopDone(c, "parse") \/ LoopDone(c, "filter")
    /\ Finished(c, Return(frames[FrameOf(c)].acc))
    /\ UNCHANGED <<lines, called, ret, args, pipeline>>

\* validate_logs returns; inside batch_process the rejections are kept and
\* compute_stats is entered.
ReturnValidation(c) ==
    /\ LoopDone(c, "validate")
    /\ LET f == frames[FrameOf(c)] IN
       IF calls[c].op = "batch_process"
       THEN /\ calls' = [calls EXCEPT ![c].errors = f.acc, ![c].phase = "stats"]
            /\ frames' = [frames EXCEPT ![FrameOf(c)] = NewFrame]
       ELSE Finished(c, Return([valid_count |-> f.valid_count, errors |-> f.acc]))
    /\ UNCHANGED <<lines, called, ret, args, pipeline>>

\* compute_stats aggregates the entries it parsed; batch_process pairs the
\* statistics with the rejections.
ReturnStats(c) ==
    /\ LoopDone(c, "stats")
    /\ LET stats == aggregate_entries(frames[FrameOf(c)].acc) IN
       IF calls[c].op = "batch_process" /\ stats.kind = "return"
       THEN Finished(c, Return([stats |-> stats.value, errors |-> calls[c].errors]))
       ELSE Finished(c, stats)
    /\ UNCHANGED <<lines, called, ret, args, pipeline>>

\* The caller takes the outcome and is free to call again.
TakeResult(c) ==
    /\ calls[c].phase = "done"
    /\ calls' = [calls EXCEPT ![c] = IdleCall(calls[c].log_lines)]
    /\ UNCHANGED <<lines, called, ret, args, frames, pipeline>>

BeginCall == \E c \in Callers, op \in Ops : Begin(c, op)
StepParse == \E c \in Callers : IterateParse(c)
StepValidate == \E c \in Callers : IterateValidate(c)
StepStats == \E c \in Callers : IterateStats(c)
StepFilter == \E c \in Callers : IterateFilter(c)
EndList == \E c \in Callers : ReturnList(c)
EndValidation == \E c \in Callers : ReturnValidation(c)
EndStats == \E c \in Callers : ReturnStats(c)
NextCallAgain == \E c \in Callers : TakeResult(c)

NextCalls ==
    \/ BeginCall
    \/ StepParse
    \/ StepValidate
    \/ StepStats
    \/ StepFilter
    \/ EndList
    \/ EndValidation
    \/ EndStats
    \/ NextCallAgain

SpecCalls == InitCalls /\ [][NextCalls]_vars

-----------------------------------------------------------------------------
(* LogPipeline.analyze_and_alert (pipeline.py).  The engine it calls,       *)
(* rust_processor, has the contract of the operations above.                *)

\* Longest file the pipeline loads, and largest error_threshold configured.
MaxPipelineLines == 3
MaxThreshold == 3

\* A line of the file that is empty after strip().
BlankLine == [form |-> "blank", n |-> 0, members |-> [k \in Keys |-> JAbsent]]

PipelineDomain ==
    { BlankLine,
      MalformedLine,
      NumberLine(42),
      ObjectLine(JStr("t"), JStr("ERROR"), JInt(20), JInt(500)),
      ObjectLine(JStr("t"), JStr("WARN"), JAbsent, JAbsent),
      ObjectLine(JStr("t"), JStr("BAD"), JAbsent, JAbsent),
      ObjectLine(JStr("t"), JEmptyArray, JInt(20), JInt(500)),
      ObjectLine(JStr(""), JStr("ERROR"), JAbsent, JAbsent) }

\* The non-empty lines of the file, in order.
load_logs_from_file(file_lines) ==
    LET nonempty(l) == l.form # "blank" IN SelectSeq(file_lines, nonempty)

\* ProcessingResult(stats, errors, total_processed, filtered_count=0), or the
\* exception process_batch logs and raises again.
process_batch(log_lines) ==
    LET r == batch_process(log_lines) IN
    IF r.kind = "raise" THEN r
    ELSE Return([stats |-> r.value.stats,
                 errors |-> r.value.errors,
                 total_processed |-> r.value.stats.total_count,
                 filtered_count |-> 0])

\* filter_logs(log_lines, min_level, min_duration_ms, status_codes=None)
filter_high_severity_logs(log_lines, min_level, min_duration_ms) ==
    filter_logs(log_lines, FilterArgs(min_level, min_duration_ms, FALSE, <<>>))

\* Variant that alerts as soon as the threshold is reached.
ThresholdReached(n, error_threshold) == n >= error_threshold

\* len(result.errors) > self.error_threshold
ThresholdExceeded(n, error_threshold) == n > error_threshold

\* No ProcessingResult yet.
NoProcessingResult == [stats |-> <<>>, errors |-> <<>>, total_processed |-> 0,
                       filtered_count |-> 0]

\* LogPipeline(error_threshold) about to run analyze_and_alert on a file.
NewPipeline(error_threshold, file_exists) ==
    [error_threshold |-> error_threshold, file_exists |-> file_exists,
     pc |-> "start", log_lines |-> <<>>, result |-> NoProcessingResult,
     events |-> <<>>, raised |-> ""]

InitPipeline ==
    /\ lines \in SeqsUpTo(PipelineDomain, MaxPipelineLines)
    /\ called = "none"
    /\ ret = NoResult
    /\ args = NoArgs
    /\ calls = NoCalls
    /\ frames = NoFrames
    /\ pipeline \in { NewPipeline(t, e) : t \in 0..MaxThreshold, e \in BOOLEAN }

\* The run ends with exception e.
Fails(e) == pipeline' = [pipeline EXCEPT !.pc = "failed", !.raised = e]

\* Step 1: log_lines = self.load_logs_from_file(file_path)
LoadLogs ==
    /\ pipeline.pc = "start"
    /\ IF ~ pipeline.file_exists THEN Fails("FileNotFoundError")
       ELSE pipeline' = [pipeline EXCEPT !.pc = "loaded",
                                         !.log_lines = load_logs_from_file(lines),
                                         !.events = Append(@, "loaded")]
    /\ UNCHANGED <<lines, called, ret, args, calls, frames>>

\* Step 2: result = self.process_batch(log_lines)
ProcessBatch ==
    /\ pipeline.pc = "loaded"
    /\ LET r == process_batch(pipeline.log_lines) IN
       IF r.kind = "raise" THEN Fails(r.exc)
       ELSE pipeline' = [pipeline EXCEPT !.pc = "processed",
                                         !.result = r.value,
                                         !.events = Append(@, "processed")]
    /\ UNCHANGED <<lines, called, ret, args, calls, frames>>

\* Step 3: if len(result.errors) > self.error_threshold: self._send_alert(result)
CheckThreshold ==
    /\ pipeline.pc = "processed"
    /\ pipeline' = [pipeline EXCEPT
          !.pc = "checked",
          !.events = IF ThresholdExceeded(Len(pipeline.result.errors),
                                          pipeline.error_threshold)
                     THEN Append(@, "alert") ELSE @]
    /\ UNCHANGED <<lines, called, ret, args, calls, frames>>

\* if result.stats and result.stats.error_count > 0: filter the ERROR logs,
\* set filtered_count and analyze them; then return result.
AnalyzeErrors ==
    /\ pipeline.pc = "checked"
    /\ IF pipeline.result.stats.error_count > 0
       THEN LET error_logs == filter_high_severity_logs(pipeline.log_lines,
                                                        PyStr("ERROR"), PyNone)
            IN IF error_logs.kind = "raise" THEN Fails(error_logs.exc)
               ELSE pipeline' = [pipeline EXCEPT
                       !.pc = "returned",
                       !.result.filtered_count = Len(error_logs.value),
                       !.events = Append(@, "filtered")]
       ELSE pipeline' = [pipeline EXCEPT !.pc = "returned"]
    /\ UNCHANGED <<lines, called, ret, args, calls, frames>>

NextPipeline ==
    \/ LoadLogs
    \/ ProcessBatch
    \/ CheckThreshold
    \/ AnalyzeErrors

SpecPipeline == InitPipeline /\ [][NextPipeline]_vars

-----------------------------------------------------------------------------
(* The schema rules as the specification words them, read off the JSON     *)
(* text of a line, independently of the Python checks above.               *)

\* The line is well-formed structured text.
Parses(line) == line.form # "malformed"

LevelNames == {"ERROR", "WARN", "INFO", "DEBUG"}

\* A member counts as present when the object has it with a non-null value.
Present(tok) == tok.j \notin {"absent", "null"}
IsNumber(tok) == tok.j \in {"int", "real"}

\* The reason the five ordered rules give for a line, or "Valid".
RuleOutcome(line) ==
    LET m == line.members IN
    IF ~ Parses(line) THEN "ParseError"
    ELSE IF ~ Present(m["timestamp"]) \/ m["timestamp"] = JStr("")
    THEN "MissingTimestamp"
    ELSE IF ~ (m["level"].j = "string" /\ m["level"].s \in LevelNames)
    THEN "InvalidLevel"
    ELSE IF Present(m["duration_ms"]) /\
            ~ (IsNumber(m["duration_ms"]) /\ m["duration_ms"].n >= 0)
    THEN "InvalidDuration"
    ELSE IF Present(m["status_code"]) /\
            ~ (m["status_code"].j = "int" /\ m["status_code"].n >= 100
                                          /\ m["status_code"].n <= 599)
    THEN "InvalidStatusCode"
    ELSE "Valid"

\* The message text that states each reason.
ReasonText(outcome) ==
    CASE outcome = "ParseError" -> "JSON parse error"
      [] outcome = "MissingTimestamp" -> "Missing or empty timestamp"
      [] outcome = "InvalidLevel" -> "Invalid log level"
      [] outcome = "InvalidDuration" -> "Invalid duration_ms"
      [] outcome = "InvalidStatusCode" -> "Invalid status_code"
      [] OTHER -> ""

ParsingPositions == { i \in 1..Len(lines) : Parses(lines[i]) }

\* Number of parsing lines whose level member is the string name.
LinesAtLevel(name) ==
    Cardinality({ i \in ParsingPositions : lines[i].members["level"] = JStr(name) })

-----------------------------------------------------------------------------
(* Claims *)

\* C1: batch_process(lines) returns (stats, rejections) where stats equals
\* compute_stats(lines) in every field and rejections equals the rejection list
\* of validate_logs(lines); batch_process fails exactly when compute_stats fails,
\* and then with the same exception.
C1_BatchEqualsSeparateCalls ==
    called = "batch_process" =>
        LET s == compute_stats(lines)
            v == validate_logs(lines)
        IN /\ (ret.kind = "raise") <=> (s.kind = "raise")
           /\ ret.kind = "raise" => ret.exc = s.exc
           /\ ret.kind = "return" =>
                /\ ret.value.stats = s.value
                /\ v.kind = "return"
                /\ ret.value.errors = v.value.errors

\* batch_process returned for a batch with rejected and accepted lines.
C1_Witness ==
    /\ called = "batch_process"
    /\ ret.kind = "return"
    /\ Len(ret.value.errors) >= 2
    /\ Len(ret.value.errors) < Len(lines)

\* C2 (as stated): for every batch validate_logs returns (valid_count,
\* rejections) with valid_count + len(rejections) = len(lines).
C2_EveryLineCountedOnce ==
    called = "validate_logs" =>
        /\ ret.kind = "return"
        /\ ret.value.valid_count + Len(ret.value.errors) = Len(lines)

C4_ValidationNeverRaises ==
    called = "validate_logs" =>
        /\ ret.kind = "return"
        /\ \A i \in 1..Len(lines) :
              (~ Parses(lines[i]) \/ lines[i].form # "object") =>
                  \E k \in 1..Len(ret.value.errors) : ret.value.errors[k].line = i

\* C5 (as stated): compute_stats and batch_process return normally whenever at
\* least one line of the batch parses.
C5_OnlyEmptyPopulationFails ==
    (called \in {"compute_stats", "batch_process"} /\ ParsingPositions # {}) =>
        ret.kind = "return"

\* C6: compute_stats fails with the EmptyPopulation error and returns no
\* statistics whenever no line of the batch parses (the empty batch included).
C6_EmptyPopulationRaises ==
    (called = "compute_stats" /\ ParsingPositions = {}) =>
        /\ ret.kind = "raise"
        /\ ret.exc = "ValueError: No valid log entries found"
        /\ ret.value = <<>>

\* compute_stats ran on a non-empty batch none of whose lines parses.
C6_Witness ==
    /\ called = "compute_stats"
    /\ Len(lines) >= 2
    /\ ParsingPositions = {}
    /\ ret.kind = "raise"

\* C7 (as stated): a line is rejected iff it violates one of the five ordered
\* rules, with exactly one rejection, whose reason is that of the first rule
\* violated.
C7_FirstViolatedRuleReported ==
    (called = "validate_logs" /\ ret.kind = "return") =>
        \A i \in 1..Len(lines) :
            LET at == { k \in 1..Len(ret.value.errors) : ret.value.errors[k].line = i }
                outcome == RuleOutcome(lines[i])
            IN IF outcome = "Valid" THEN at = {}
               ELSE /\ Cardinality(at) = 1
                    /\ \A k \in at : ret.value.errors[k].reason = ReasonText(outcome)

\* C8: every rejection validate_logs returns names the 1-based position of a
\* line of the batch that breaks a rule, with the reason of that line, and the
\* positions in the list increase strictly.
C8_RejectionsNamePositionsInOrder ==
    (called = "validate_logs" /\ ret.kind = "return") =>
        LET es == ret.value.errors IN
        /\ \A k \in 1..Len(es) :
              /\ es[k].line \in 1..Len(lines)
              /\ RuleOutcome(lines[es[k].line]) # "Valid"
              /\ es[k].reason = ReasonText(RuleOutcome(lines[es[k].line]))
        /\ \A k \in 1..(Len(es) - 1) : es[k].line < es[k + 1].line

\* validate_logs rejected the first and the third line and accepted the second.
C8_Witness ==
    /\ called = "validate_logs"
    /\ ret.kind = "return"
    /\ Len(ret.value.errors) = 2
    /\ ret.value.errors[1].line = 1
    /\ ret.value.errors[2].line = 3

C10_UnparseableLinesExcluded ==
    (called = "compute_stats" /\ ret.kind = "return") =>
        /\ ret.value.total_count = Cardinality(ParsingPositions)
        /\ ret.value.error_count = LinesAtLevel("ERROR")
        /\ ret.value.warn_count = LinesAtLevel("WARN")
        /\ ret.value.info_count = LinesAtLevel("INFO")
        /\ ret = compute_stats(SelectSeq(lines, Parses))

\* compute_stats returned for a batch with an unparseable line among parsing ones.
C10_Witness ==
    /\ called = "compute_stats"
    /\ ret.kind = "return"
    /\ Cardinality(ParsingPositions) >= 2
    /\ Cardinality(ParsingPositions) < Len(lines)

-----------------------------------------------------------------------------
(* The filter predicates as the specification words them. *)

\* Severity rank of a level name; anything unrecognized ranks as DEBUG.
Rank(name) ==
    CASE name = "ERROR" -> 3
      [] name = "WARN" -> 2
      [] name = "INFO" -> 1
      [] OTHER -> 0

LineRank(line) ==
    IF line.members["level"].j = "string" THEN Rank(line.members["level"].s) ELSE 0

\* Numeric value of a member, for a number or a boolean.
HasValue(tok) == tok.j \in {"int", "real", "true"}
ValueOf(tok) == DecodeToken(tok).n

PassesLevel(line, a) ==
    a.min_level = PyNone \/ LineRank(line) >= Rank(a.min_level.s)

PassesDuration(line, a) ==
    a.min_duration_ms = PyNone \/
        (HasValue(line.members["duration_ms"]) /\
         ValueOf(line.members["duration_ms"]) >= a.min_duration_ms.n)

PassesStatus(line, a) ==
    ~ a.status_codes.given \/
        (HasValue(line.members["status_code"]) /\
         \E k \in 1..Len(a.status_codes.codes) :
            a.status_codes.codes[k] = ValueOf(line.members["status_code"]))

\* The decoded records of the given lines, in order.
RecordsOf(ls) == [k \in 1..Len(ls) |-> JsonLoads(ls[k]).val]

\* C11 (as stated): filter_logs returns exactly the records of the lines that
\* parse and satisfy every supplied predicate, in input order with duplicates
\* kept, and never raises.
C11_FilterReturnsMatchingRecords ==
    called = "filter_logs" =>
        LET pass(l) == /\ Parses(l) /\ PassesLevel(l, args)
                       /\ PassesDuration(l, args) /\ PassesStatus(l, args)
        IN /\ ret.kind = "return"
           /\ ret.value = RecordsOf(SelectSeq(lines, pass))

\* C12 (as stated): with all three predicates None filter_logs returns the
\* records of exactly the lines that parse, in input order.
C12_NoPredicatesGivesParseableSubset ==
    (called = "filter_logs" /\ args = NoArgs) =>
        /\ ret.kind = "return"
        /\ ret.value = RecordsOf(SelectSeq(lines, Parses))

\* The two slices of a batch cut after position k.
SliceBefore(ls, k) == SubSeq(ls, 1, k)
SliceAfter(ls, k) == SubSeq(ls, k + 1, Len(ls))

\* compute_stats completed its aggregation (it returned statistics or found
\* no parseable line).
Aggregated ==
    /\ called = "compute_stats"
    /\ ret.kind = "return" \/ ret = Raise("ValueError: No valid log entries found")

\* C13: for every split of a batch into two slices, merging the partial
\* aggregates of the slices and finalizing gives the same outcome, equal in
\* every field, as compute_stats over the whole batch.
C13_MergedSlicesEqualWhole ==
    Aggregated =>
        \A k \in 0..Len(lines) :
            FinalizeAggregate(MergeAggregates(PartialAggregate(SliceBefore(lines, k)),
                                              PartialAggregate(SliceAfter(lines, k)))) = ret

\* A returned three-line batch with a cut that leaves durations and status
\* codes on both sides.
C13_Witness ==
    /\ Aggregated /\ ret.kind = "return" /\ Len(lines) = 3
    /\ \E k \in 1..2 :
          LET a == PartialAggregate(SliceBefore(lines, k))
              b == PartialAggregate(SliceAfter(lines, k))
          IN /\ a.durations # <<>> /\ b.durations # <<>>
             /\ DOMAIN a.status_code_distribution \cap DOMAIN b.status_code_distribution # {}
             /\ a.error_count + b.error_count > 0

\* Positions of the lines that carry a duration, and the value at a position.
DurationPositions == { i \in 1..Len(lines) : HasValue(lines[i].members["duration_ms"]) }
DurationAt(i) == ValueOf(lines[i].members["duration_ms"])

\* C14: when at least one parsed record carries duration_ms, the returned
\* statistics satisfy p50_duration_ms <= p95_duration_ms <= p99_duration_ms.
C14_PercentilesMonotonic ==
    (called = "compute_stats" /\ ret.kind = "return" /\ DurationPositions # {}) =>
        /\ ret.value.p50_duration_ms.n <= ret.value.p95_duration_ms.n
        /\ ret.value.p95_duration_ms.n <= ret.value.p99_duration_ms.n

\* A population given in descending order whose three percentiles differ.
C14_Witness ==
    /\ called = "compute_stats" /\ ret.kind = "return"
    /\ \E i, j \in DurationPositions : i < j /\ DurationAt(i) > DurationAt(j)
    /\ ret.value.p50_duration_ms.n < ret.value.p95_duration_ms.n
    /\ ret.value.p95_duration_ms.n < ret.value.p99_duration_ms.n

\* A rejection list with every position moved up by k.
Shifted(es, k) == [j \in 1..Len(es) |-> [es[j] EXCEPT !.line = @ + k]]

\* C15 (as stated): for all batches A and B, validate_logs(A ++ B) has the sum
\* of the two separate valid counts, and its rejection list is the rejections
\* of A followed by those of B with positions shifted by len(A).
C15_ValidationComposes ==
    called = "validate_logs" =>
        \A k \in 0..Len(lines) :
            LET a == validate_logs(SliceBefore(lines, k))
                b == validate_logs(SliceAfter(lines, k))
            IN /\ a.kind = "return" /\ b.kind = "return" /\ ret.kind = "return"
               /\ ret.value.valid_count = a.value.valid_count + b.value.valid_count
               /\ ret.value.errors = a.value.errors \o Shifted(b.value.errors, k)

\* Rejections of batch_process that report a line that did not parse.
ParseRejections(errors) ==
    Cardinality({ k \in 1..Len(errors) : errors[k].reason = "JSON parse error" })

CountBelow(v) == Cardinality({ i \in DurationPositions : DurationAt(i) < v })
CountUpTo(v) == Cardinality({ i \in DurationPositions : DurationAt(i) <= v })
AtRank(v, idx) == CountBelow(v) <= idx /\ idx < CountUpTo(v)

\* floor(n * q) clamped to [0, n - 1], q in hundredths.
NearestRank(n, q) ==
    LET f == (n * q) \div 100 IN
    IF f > n - 1 THEN n - 1 ELSE IF f < 0 THEN 0 ELSE f

RECURSIVE TotalDuration(_)
TotalDuration(S) ==
    IF S = {} THEN 0
    ELSE LET i == CHOOSE x \in S : TRUE IN DurationAt(i) + TotalDuration(S \ {i})

\* The population is the ten values 10, 20, ..., 100.
TenValues ==
    /\ Cardinality(DurationPositions) = 10
    /\ { DurationAt(i) : i \in DurationPositions } = { 10 * k : k \in 1..10 }

\* C18: with the n duration values sorted ascending, p50, p95 and p99 are the
\* elements at index floor(n*q) clamped to [0, n-1], min and max are the first
\* and last elements and avg is the arithmetic mean; ten values 10..100 give
\* p50 = 60 and p95 = 100.
C18_NearestRankPercentiles ==
    (called = "compute_stats" /\ ret.kind = "return" /\ DurationPositions # {}) =>
        LET n == Cardinality(DurationPositions)
            st == ret.value
        IN /\ AtRank(st.p50_duration_ms.n, NearestRank(n, 50))
           /\ AtRank(st.p95_duration_ms.n, NearestRank(n, 95))
           /\ AtRank(st.p99_duration_ms.n, NearestRank(n, 99))
           /\ AtRank(st.min_duration_ms.n, 0)
           /\ AtRank(st.max_duration_ms.n, n - 1)
           /\ st.avg_duration_ms.den > 0
           /\ st.avg_duration_ms.num * n = st.avg_duration_ms.den * TotalDuration(DurationPositions)
           /\ TenValues => (st.p50_duration_ms.n = 60 /\ st.p95_duration_ms.n = 100)

\* compute_stats returned for the ten values given in an order that is not
\* ascending, next to a record without duration.
C18_Witness ==
    /\ called = "compute_stats" /\ ret.kind = "return"
    /\ TenValues
    /\ Len(lines) = 11
    /\ \E i, j \in DurationPositions : i < j /\ DurationAt(i) > DurationAt(j)
    /\ ret.value.p50_duration_ms.n = 60

\* At least one line parses and no parsing line carries a duration_ms value.
NoDurationCarried ==
    /\ ParsingPositions # {}
    /\ \A i \in ParsingPositions : ~ Present(lines[i].members["duration_ms"])

\* C19 (as stated): when at least one line parses but no parsed record carries
\* duration_ms, compute_stats succeeds, reports the six duration statistics
\* as 0.0 and still computes the counts.
C19_NoDurationGivesZeros ==
    (called = "compute_stats" /\ NoDurationCarried) =>
        /\ ret.kind = "return"
        /\ ret.value.avg_duration_ms = Quotient(0, 1)
        /\ ret.value.min_duration_ms = FloatZero
        /\ ret.value.max_duration_ms = FloatZero
        /\ ret.value.p50_duration_ms = FloatZero
        /\ ret.value.p95_duration_ms = FloatZero
        /\ ret.value.p99_duration_ms = FloatZero
        /\ ret.value.total_count = Cardinality(ParsingPositions)

\* Positions of the parsing lines that carry a status code, and the code there.
StatusPositions == { i \in ParsingPositions : HasValue(lines[i].members["status_code"]) }
StatusAt(i) == ValueOf(lines[i].members["status_code"])
Occurrences(c) == Cardinality({ i \in StatusPositions : StatusAt(i) = c })

RunAlone(op, b) ==
    CASE op = "parse_logs" -> parse_logs(b)
      [] op = "validate_logs" -> validate_logs(b)
      [] op = "compute_stats" -> compute_stats(b)
      [] op = "filter_logs" -> filter_logs(b, ConcArgs)
      [] op = "batch_process" -> batch_process(b)

\* C16: in every interleaving of calls by concurrent callers, a call that has
\* ended has the outcome the operation gives when run alone on the caller's
\* batch, and no caller's batch is ever changed.
C16_CallsDoNotInterfere ==
    \A c \in DOMAIN calls :
        /\ calls[c].log_lines = calls[c].given
        /\ calls[c].phase = "done" =>
              calls[c].result = RunAlone(calls[c].op, calls[c].given)

\* One caller's batch_process has returned while another caller is part-way
\* through a loop over a different batch.
C16_Witness ==
    \E c, d \in DOMAIN calls :
        /\ c # d
        /\ calls[c].phase = "done"
        /\ calls[c].op = "batch_process"
        /\ calls[c].result.kind = "return"
        /\ calls[d].phase \notin {"idle", "done"}
        /\ frames[FrameOf(d)].i > 1
        /\ calls[c].given # calls[d].given

\* Parsing lines whose level is absent or is none of the four level names.
UnrecognizedLevel ==
    { i \in ParsingPositions :
        \A name \in LevelNames : lines[i].members["level"] # JStr(name) }

\* C21: a parsed record whose level is absent or unrecognized counts toward
\* total_count and toward none of error_count, warn_count, info_count; each
\* level count is the exact number of parsed records at that level, so the
\* three counts sum to at most total_count.
C21_LevelCountsAreExactTallies ==
    (called = "compute_stats" /\ ret.kind = "return") =>
        LET st == ret.value IN
        /\ st.total_count = Cardinality(ParsingPositions)
        /\ st.error_count = LinesAtLevel("ERROR")
        /\ st.warn_count = LinesAtLevel("WARN")
        /\ st.info_count = LinesAtLevel("INFO")
        /\ st.error_count + st.warn_count + st.info_count
              <= st.total_count - Cardinality(UnrecognizedLevel)

\* Returned statistics over a batch with a record without level, a record
\* with an unknown level name and a counted record.
C21_Witness ==
    /\ called = "compute_stats" /\ ret.kind = "return"
    /\ \E i \in UnrecognizedLevel : lines[i].members["level"] = JAbsent
    /\ \E i \in UnrecognizedLevel : lines[i].members["level"].j = "string"
    /\ ret.value.total_count = 3
    /\ ret.value.error_count + ret.value.warn_count + ret.value.info_count = 1

\* What is left of total_count after the three stored level counts.
Remainder(st) == st.total_count - (st.error_count + st.warn_count + st.info_count)

\* C22 (as stated): in every LogStats returned by compute_stats the number of
\* DEBUG records of the population is total_count minus the three level counts.
C22_DebugIsRemainder ==
    (called = "compute_stats" /\ ret.kind = "return") =>
        LinesAtLevel("DEBUG") = Remainder(ret.value)

\* C22 (amended): total_count minus the three level counts is the number of
\* parsed records at DEBUG plus those whose level is absent or unrecognized;
\* it is the DEBUG count exactly when no parsed record has such a level.
C22_RemainderIsDebugPlusUnrecognized ==
    (called = "compute_stats" /\ ret.kind = "return") =>
        /\ Remainder(ret.value) = LinesAtLevel("DEBUG") + Cardinality(UnrecognizedLevel)
        /\ (LinesAtLevel("DEBUG") = Remainder(ret.value)) <=> (UnrecognizedLevel = {})

\* Returned statistics over a DEBUG record, a record with an unrecognized
\* level and a malformed line.
C22_Witness ==
    /\ called = "compute_stats" /\ ret.kind = "return"
    /\ LinesAtLevel("DEBUG") = 1
    /\ Cardinality(UnrecognizedLevel) = 1
    /\ Remainder(ret.value) = 2
    /\ Len(lines) = 3

\* Every parsing line of the batch is a record (a JSON object).
AllRecords == \A i \in ParsingPositions : lines[i].form = "object"

\* min_level is the only predicate supplied.
OnlyLevelSupplied ==
    /\ args.min_level # PyNone
    /\ args.min_duration_ms = PyNone
    /\ ~ args.status_codes.given

\* C23 (as stated): with min_level supplied a parsed record passes iff the
\* rank of its level (DEBUG=0 < INFO=1 < WARN=2 < ERROR=3, rank 0 when the
\* level is absent or unrecognized) is at least the rank of min_level; no
\* record is refused for having an invalid level.
C23_LevelPredicateByRank ==
    (called = "filter_logs" /\ OnlyLevelSupplied /\ AllRecords) =>
        LET pass(l) == Parses(l) /\ LineRank(l) >= Rank(args.min_level.s)
        IN /\ ret.kind = "return"
           /\ ret.value = RecordsOf(SelectSeq(lines, pass))

\* The status_code of a returned record.
CodeOf(record) == record.items["status_code"]

\* C24 (as stated): whenever status_codes is supplied, the empty set included,
\* a record is in the output only if it has a status_code that is a member of
\* the supplied set.
C24_SuppliedCodesExcludeOthers ==
    (called = "filter_logs" /\ args.status_codes.given /\ ret.kind = "return") =>
        \A k \in 1..Len(ret.value) :
            /\ CodeOf(ret.value[k]).t \in {"int", "float", "bool"}
            /\ \E j \in 1..Len(args.status_codes.codes) :
                  args.status_codes.codes[j] = CodeOf(ret.value[k]).n

\* The duration_ms of a returned record.
DurationOf(record) == record.items["duration_ms"]

\* C25: whenever min_duration_ms is supplied, threshold 0 included, a record
\* is in the output only if it has a duration_ms that is at least the
\* threshold; a record without duration_ms is left out.
C25_SuppliedThresholdExcludesOthers ==
    (called = "filter_logs" /\ args.min_duration_ms # PyNone /\ ret.kind = "return") =>
        /\ \A k \in 1..Len(ret.value) :
              /\ DurationOf(ret.value[k]).t \in {"int", "float", "bool"}
              /\ DurationOf(ret.value[k]).n >= args.min_duration_ms.n
        /\ \A i \in ParsingPositions :
              ~ Present(lines[i].members["duration_ms"]) =>
                  \A k \in 1..Len(ret.value) : ret.value[k] # JsonLoads(lines[i]).val

\* filter_logs with threshold 0 and no other predicate kept one record and
\* left out a record that has no duration_ms.
C25_Witness ==
    /\ called = "filter_logs" /\ ret.kind = "return"
    /\ args = FilterArgs(PyNone, PyFloat(0), FALSE, <<>>)
    /\ Len(lines) = 2 /\ Len(ret.value) = 1
    /\ \E i \in ParsingPositions : lines[i].members["duration_ms"] = JAbsent

\* Position of an event in the run of the pipeline, 0 when it did not happen.
EventAt(name) ==
    IF \E k \in 1..Len(pipeline.events) : pipeline.events[k] = name
    THEN CHOOSE k \in 1..Len(pipeline.events) : pipeline.events[k] = name
    ELSE 0

Alerts == Cardinality({ k \in 1..Len(pipeline.events) : pipeline.events[k] = "alert" })

\* The threshold test of the run is behind it.
PastCheck ==
    \/ pipeline.pc \in {"checked", "returned"}
    \/ pipeline.pc = "failed" /\ EventAt("processed") > 0

LevelOnly(name) == args = FilterArgs(PyStr(name), PyNone, FALSE, <<>>)

\* C27 (as stated): for every batch with at least one parseable line the
\* length of filter_logs(lines, min_level) is error_count for ERROR,
\* error_count + warn_count for WARN and error_count + warn_count + info_count
\* for INFO, the counts being those of compute_stats(lines).
C27_FilterAgreesWithLevelCounts ==
    (called = "filter_logs" /\ ParsingPositions # {}
        /\ (LevelOnly("ERROR") \/ LevelOnly("WARN") \/ LevelOnly("INFO"))) =>
        LET stats == compute_stats(lines) IN
        /\ ret.kind = "return"
        /\ stats.kind = "return"
        /\ Len(ret.value) =
              stats.value.error_count
              + (IF LevelOnly("ERROR") THEN 0 ELSE stats.value.warn_count)
              + (IF LevelOnly("INFO") THEN stats.value.info_count ELSE 0)

=============================================================================
